---- MODULE Spec2Model ----
(***************************************************************************)
(* Verification model of the Sabhya gateway front-end.                     *)
(*                                                                         *)
(* Part 1  ResponseViewer / AuditSidebar, rendered from their props, and   *)
(*         the GovernanceTestPage harness that drives them.                *)
(*                                                                         *)
(* JavaScript values are encoded as follows.  A tri-state audit field      *)
(* (boolean | null | undefined) is one of the strings "true", "false",     *)
(* "null", "undefined"; only "true" is truthy.  A null object reference is *)
(* the record Null; an array that may also be missing is the record        *)
(* [items |-> <<...>>] or Null, and a stored JSON text is [json |-> value] *)
(* or Null.                                                                *)
(***************************************************************************)
EXTENDS Integers, Sequences, FiniteSets, TLC

VARIABLES
    selectedScenario,   \* GovernanceTestPage: useState("clean")
    props,              \* the props the two components are rendered with
    viewerView,         \* what ResponseViewer last rendered
    sidebarView,        \* what AuditSidebar last rendered
    \* ---- ApiService.getAuditLog (one call at a time)
    pollPc,             \* "idle" | "fetching" | "waiting" | "returned"
    pollI,              \* the loop variable i
    pollReq,            \* the requestId argument
    pollAttempts,       \* the attempts argument
    pollResult,         \* the value the call resolved to
    pollFetches,        \* getRecentLogs calls issued by this call
    pollErrors,         \* attempts of this call that threw
    pollWaits,          \* delays this call has started
    \* ---- components/InteractionPanel.tsx
    panelInput,         \* useState(''): the textarea
    messages,           \* useState([]): the conversation
    loading,            \* useState(false)
    expandedThinking,   \* useState([]): indices whose trace is open
    panelPending,       \* api.chat calls that have not settled
    panelStorage,       \* localStorage["sabhya_chat_history"], or Null
    \* ---- the thought/content splitter of the streaming dashboard
    splitText,          \* the accumulated stream text (streamingText / fullContent)
    splitDone,          \* the done event has been handled
    splitView,          \* what the streaming response area renders
    splitStored,        \* what the done handler stores, or Null
    \* ---- SabhyaDashboard (streaming)
    promptInput, processingState, responseOutput, piiWarning, chatHistory,
    streamingText, isStreaming, currentSources, isConnected,
    dashStorage,        \* localStorage["sabhya_chat_history_v1"], or Null
    calls,              \* the invocations of submitRequest: where each one stands,
                        \* its local fullContent, the currentSources it closed over
    submits,            \* how many times submitRequest got past its guard
    marked,             \* history: the running invocation that last read a
                        \* [DONE] line, or an unparsable line before any token
    \* ---- SabhyaDashboard (first version): the governance logs
    logsList,           \* useState([]) of logs: the audit-log list
    isLogsLoading,      \* useState(false)
    logsError,          \* useState(null): Null or [message |-> ...]
    logsTimer,          \* the 30 s interval of the mount effect is armed
    logsCalls,          \* the invocations of fetchLogs: where each one stands
                        \* and what started it
    \* ---- the access gates, the login pages and the browser storage
    route,              \* the page that is mounted
    sessionStorage,     \* the entries of window.sessionStorage
    localStorage,       \* the entries of window.localStorage other than the
                        \* two chat histories (panelStorage, dashStorage)
    authorized,         \* ProtectedLayout: useState(false)
    isAuthenticated,    \* Home: useState(false)
    gatePc,             \* "none" | "mounted" (effect not yet run) | "checked"
    gateView,           \* what the gate rendered: "none" | "verifying" | "children"
    loginPc,            \* handleLogin: "idle" | "timer" | "fetch" | "json"
    loginLoading,       \* isLoading / loading of the login page
    loginError,         \* error of LoginPage (app/login)
    gateHistory,        \* history: a credential was removed by Sign Out or
                        \* Logout; the outcome of the last mount-time check
    \* ---- components/GovernanceLogs.tsx
    govLogs,            \* useState([]) of logs
    govLoading,         \* useState(true) of loading
    govError,           \* useState(null) of error: Null or [message |-> ...]
    govPending,         \* api.getAuditLogs calls that have not settled
    govTable,           \* what the table body last rendered
    govCsv,             \* the rows of the last exported CSV, each with the
                        \* record it was made from; Null before any export
    \* ---- the reader loop on the bytes of the stream
    wire,               \* the bytes of the response body
    wireRead,           \* how many of them reader.read() has delivered
    wireContent         \* fullContent: the tokens taken from them

viewVars == <<selectedScenario, props, viewerView, sidebarView>>

pollVars == <<pollPc, pollI, pollReq, pollAttempts, pollResult, pollFetches,
              pollErrors, pollWaits>>

panelVars == <<panelInput, messages, loading, expandedThinking, panelPending,
               panelStorage>>

splitVars == <<splitText, splitDone, splitView, splitStored>>

display == <<promptInput, processingState, responseOutput, piiWarning, chatHistory,
             streamingText, isStreaming, currentSources, isConnected, dashStorage>>

dashVars == <<display, calls, submits, marked>>

logsVars == <<logsList, isLogsLoading, logsError, logsTimer, logsCalls>>

authVars == <<route, sessionStorage, localStorage, authorized, isAuthenticated,
              gatePc, gateView, loginPc, loginLoading, loginError, gateHistory>>

govVars == <<govLogs, govLoading, govError, govPending, govTable, govCsv>>

wireVars == <<wire, wireRead, wireContent>>

shellVars == <<logsVars, authVars, govVars, wireVars>>

vars == <<selectedScenario, props, viewerView, sidebarView,
          pollPc, pollI, pollReq, pollAttempts, pollResult, pollFetches,
          pollErrors, pollWaits,
          panelInput, messages, loading, expandedThinking, panelPending,
          panelStorage,
          splitText, splitDone, splitView, splitStored,
          promptInput, processingState, responseOutput, piiWarning, chatHistory,
          streamingText, isStreaming, currentSources, isConnected,
          dashStorage, calls, submits, marked,
          logsList, isLogsLoading, logsError, logsTimer, logsCalls,
          route, sessionStorage, localStorage, authorized, isAuthenticated,
          gatePc, gateView, loginPc, loginLoading, loginError, gateHistory,
          govLogs, govLoading, govError, govPending, govTable, govCsv,
          wire, wireRead, wireContent>>

-----------------------------------------------------------------------------
(* JavaScript values *)

Null == [isNull |-> TRUE]

Tri == {"true", "false", "null", "undefined"}

Truthy(v) == v = "true"

Nullish(v) == v = "null" \/ v = "undefined"

Items(seq) == [items |-> seq]

Json(value) == [json |-> value]

-----------------------------------------------------------------------------
(* Texts.  A text is a sequence of atoms: the two thought tags, the code   *)
(* fence, the fence's language word, a blank, a line feed, and a piece of  *)
(* ordinary text.                                                          *)

OPEN == "<thought>"

CLOSE == "</thought>"

\* three backquotes
FENCE == "~~~"

LANG == "markdown"

SP == " "

LF == "LF"

CH == "a"

Atoms == {OPEN, CLOSE, FENCE, LANG, SP, LF, CH}

Whitespace == {SP, LF}

\* String.prototype.trim
RECURSIVE TrimStart(_)
TrimStart(t) ==
    IF t # <<>> /\ t[1] \in Whitespace THEN TrimStart(Tail(t)) ELSE t

RECURSIVE TrimEnd(_)
TrimEnd(t) ==
    IF t # <<>> /\ t[Len(t)] \in Whitespace
    THEN TrimEnd(SubSeq(t, 1, Len(t) - 1)) ELSE t

Trim(t) == TrimEnd(TrimStart(t))

\* .replace(/^~~~(?:markdown|txt)?\n?/i, ""), ~~~ written for the backquotes
StripFenceStart(t) ==
    IF t # <<>> /\ t[1] = FENCE
    THEN LET r1 == Tail(t)
             r2 == IF r1 # <<>> /\ r1[1] = LANG THEN Tail(r1) ELSE r1
         IN  IF r2 # <<>> /\ r2[1] = LF THEN Tail(r2) ELSE r2
    ELSE t

\* .replace(/~~~$/, "")
StripFenceEnd(t) ==
    IF t # <<>> /\ t[Len(t)] = FENCE THEN SubSeq(t, 1, Len(t) - 1) ELSE t

\* "Strip outer markdown blocks": the two replaces, then trim
StripOuterFence(t) == Trim(StripFenceEnd(StripFenceStart(t)))

\* The least index >= from at which atom stands in t, or 0.
IndexOf(t, atom, from) ==
    LET hits == {k \in from .. Len(t) : t[k] = atom}
    IN  IF hits = {} THEN 0 ELSE CHOOSE k \in hits : \A j \in hits : k <= j

\* The greatest index >= from at which atom stands in t, or 0.
LastIndexOf(t, atom, from) ==
    LET hits == {k \in from .. Len(t) : t[k] = atom}
    IN  IF hits = {} THEN 0 ELSE CHOOSE k \in hits : \A j \in hits : k >= j

\* ClosingTag as a greedy [\s\S]* would find it: the last closing tag.
ClosingTagGreedy(t, open) == LastIndexOf(t, CLOSE, open + 1)

\* The closing tag a lazy [\s\S]*? stops at: the first one after the opening tag.
ClosingTag(t, open) == IndexOf(t, CLOSE, open + 1)

\* StreamingMatch taking a closing tag alone for a thought block.
StreamingMatchCloseOnly(t) ==
    LET o == IndexOf(t, OPEN, 1)
        c == IndexOf(t, CLOSE, o + 1)
    IN  IF c = 0 /\ o = 0 THEN Null
        ELSE IF c = 0 THEN [g1 |-> SubSeq(t, o + 1, Len(t)), g2 |-> <<>>]
        ELSE [g1 |-> SubSeq(t, o + 1, c - 1), g2 |-> SubSeq(t, c + 1, Len(t))]

\* streamingText.match(/<thought>([\s\S]*?)(?:<\/thought>|$)([\s\S]*)/):
\* Null, or groups 1 and 2.
StreamingMatch(t) ==
    LET o == IndexOf(t, OPEN, 1)
        c == IF o = 0 THEN 0 ELSE ClosingTag(t, o)
    IN  IF o = 0 THEN Null
        ELSE IF c = 0 THEN [g1 |-> SubSeq(t, o + 1, Len(t)), g2 |-> <<>>]
        ELSE [g1 |-> SubSeq(t, o + 1, c - 1), g2 |-> SubSeq(t, c + 1, Len(t))]

NothingStreamed ==
    [shown |-> FALSE, hasThought |-> FALSE, thought |-> <<>>, thinkingDone |-> FALSE,
     main |-> <<>>, mainShown |-> FALSE]

\* The streaming response area: {isStreaming && streamingText && (...)}
StreamingRender(isStreamingNow, t) ==
    IF ~isStreamingNow \/ t = <<>> THEN NothingStreamed
    ELSE LET m == StreamingMatch(t)
         IN  IF m # Null
             THEN LET isThinkingDone == IndexOf(t, CLOSE, 1) # 0
                      mainContent == StripOuterFence(m.g2)
                  IN  [shown        |-> TRUE,
                       hasThought   |-> TRUE,
                       thought      |-> m.g1,
                       thinkingDone |-> isThinkingDone,
                       main         |-> mainContent,
                       mainShown    |-> (mainContent # <<>> \/ isThinkingDone)]
             ELSE [shown        |-> TRUE,
                   hasThought   |-> FALSE,
                   thought      |-> <<>>,
                   thinkingDone |-> FALSE,
                   main         |-> StripOuterFence(t),
                   mainShown    |-> TRUE]

\* The done handler: fullContent.match(/<thought>([\s\S]*?)<\/thought>/), the
\* replace of the same span, the fence stripping.  thought_process is Null
\* (undefined) when nothing matched.
DoneExtract(full) ==
    LET o == IndexOf(full, OPEN, 1)
        c == IF o = 0 THEN 0 ELSE ClosingTag(full, o)
    IN  IF o # 0 /\ c # 0
        THEN [thought_process |-> [text |-> Trim(SubSeq(full, o + 1, c - 1))],
              content |-> StripOuterFence(
                              Trim(SubSeq(full, 1, o - 1) \o SubSeq(full, c + 1, Len(full))))]
        ELSE [thought_process |-> Null,
              content |-> StripOuterFence(full)]

-----------------------------------------------------------------------------
(* Types of lib/types.ts, reduced to the fields the components read *)

RequestIds == {"test-uuid", "other-uuid"}

AuditLog == [request_id : RequestIds, pii_detected : Tri, request_blocked : Tri]

Contents == {"This is a test response content. It should be hidden if blocked.",
             "Here is the secret"}

\* choices is a sequence of message contents; it may be empty (choices[0]
\* undefined) and a content may be the empty string.
ChatResponse == [choices : {<<>>} \cup {<<c>> : c \in Contents \cup {""}},
                 total_tokens : {30}]

ErrorTypes == {"BLOCKED", "RATE_LIMIT", "UPSTREAM", "GATEWAY_OFFLINE", "UNKNOWN"}

GatewayError == [type : ErrorTypes, message : {"detail"}]

mockResponse ==
    [choices |-> <<"This is a test response content. It should be hidden if blocked.">>,
     total_tokens |-> 30]

mockAuditClean ==
    [request_id |-> "test-uuid", pii_detected |-> "false", request_blocked |-> "false"]

-----------------------------------------------------------------------------
(* ResponseViewer *)

Unrendered ==
    [kind |-> "unrendered", statusText |-> "", color |-> "none", body |-> "",
     notice |-> FALSE, waiting |-> FALSE, tokens |-> "none"]

\* response.choices[0]?.message.content || ""
ResponseContent(response) ==
    IF Len(response.choices) = 0 THEN "" ELSE response.choices[1]

\* const isPending = !auditLog
IsPending(auditLog) == auditLog = Null

\* IsRedacted asking for request_blocked to be exactly false as well.
IsRedactedOnlyIfCleared(auditLog) ==
    IF auditLog = Null THEN FALSE
    ELSE Truthy(auditLog.pii_detected) /\ auditLog.request_blocked = "false"

\* const isRedacted = auditLog?.pii_detected  (used only for its truthiness)
IsRedacted(auditLog) ==
    IF auditLog = Null THEN FALSE ELSE Truthy(auditLog.pii_detected)

\* ViewerStatusText without the pending test: a missing record reads as allowed.
ViewerStatusTextNoPending(auditLog) ==
    IF IsRedacted(auditLog) THEN "Response Redacted" ELSE "Response Allowed"

ViewerStatusText(auditLog) ==
    IF IsPending(auditLog) THEN "Governance Verification Pending..."
    ELSE IF IsRedacted(auditLog) THEN "Response Redacted"
    ELSE "Response Allowed"

ViewerColor(auditLog) ==
    IF IsPending(auditLog) THEN "grey"
    ELSE IF IsRedacted(auditLog) THEN "yellow"
    ELSE "green"

ErrorTitle(error) ==
    IF error.type = "RATE_LIMIT" THEN "Rate Limit Exceeded"
    ELSE IF error.type = "UPSTREAM" THEN "Upstream Failure"
    ELSE "Request Blocked"

ErrorColor(error) ==
    IF error.type = "RATE_LIMIT" THEN "orange"
    ELSE IF error.type = "UPSTREAM" THEN "yellow"
    ELSE "red"

ResponseViewer(response, error, isLoading, auditLog) ==
    IF isLoading THEN
        [Unrendered EXCEPT !.kind = "loading"]
    ELSE IF error # Null THEN
        [Unrendered EXCEPT !.kind = "error", !.statusText = ErrorTitle(error),
                           !.color = ErrorColor(error), !.body = error.message]
    ELSE IF response = Null THEN
        [Unrendered EXCEPT !.kind = "ready", !.statusText = "Ready for Inference"]
    ELSE
        [kind       |-> "response",
         statusText |-> ViewerStatusText(auditLog),
         color      |-> ViewerColor(auditLog),
         body       |-> ResponseContent(response),
         notice     |-> IsRedacted(auditLog),
         waiting    |-> IsPending(auditLog),
         tokens     |-> IF IsPending(auditLog) THEN "calculating" ELSE "shown"]

-----------------------------------------------------------------------------
(* AuditSidebar *)

SidebarUnrendered == [kind |-> "unrendered", status |-> "", color |-> "none"]

\* SidebarStatus with the first two tests in the wrong order.
SidebarStatusPiiFirst(auditLog) ==
    IF Truthy(auditLog.pii_detected) THEN "PII Redacted"
    ELSE IF Truthy(auditLog.request_blocked) THEN "Blocked"
    ELSE IF Nullish(auditLog.request_blocked) \/ Nullish(auditLog.pii_detected)
         THEN "Security Unknown"
    ELSE "Clean Request"

SidebarStatus(auditLog) ==
    IF Truthy(auditLog.request_blocked) THEN "Blocked"
    ELSE IF Truthy(auditLog.pii_detected) THEN "PII Redacted"
    ELSE IF Nullish(auditLog.request_blocked) \/ Nullish(auditLog.pii_detected)
         THEN "Security Unknown"
    ELSE "Clean Request"

SidebarColor(auditLog) ==
    IF Truthy(auditLog.request_blocked) THEN "red"
    ELSE IF Truthy(auditLog.pii_detected) THEN "yellow"
    ELSE IF Nullish(auditLog.request_blocked) \/ Nullish(auditLog.pii_detected)
         THEN "yellow"
    ELSE "green"

AuditSidebar(open, auditLog, isLoading, auditError) ==
    IF ~open THEN [SidebarUnrendered EXCEPT !.kind = "closed"]
    ELSE IF isLoading THEN [SidebarUnrendered EXCEPT !.kind = "loading"]
    ELSE IF auditError THEN
        [kind |-> "unavailable", status |-> "Audit Service Unavailable", color |-> "yellow"]
    ELSE IF auditLog # Null THEN
        [kind |-> "record", status |-> SidebarStatus(auditLog), color |-> SidebarColor(auditLog)]
    ELSE [SidebarUnrendered EXCEPT !.kind = "empty"]

-----------------------------------------------------------------------------
(* GovernanceTestPage *)

Scenarios == {"clean", "pending", "timeout", "redacted", "blocked", "malformed"}

\* switch (selectedScenario): currentLog
ScenarioLog(s) ==
    CASE s = "clean"     -> mockAuditClean
      [] s = "pending"   -> Null
      [] s = "timeout"   -> Null
      [] s = "redacted"  -> [mockAuditClean EXCEPT !.pii_detected = "true"]
      [] s = "blocked"   -> [mockAuditClean EXCEPT !.request_blocked = "true"]
      [] s = "malformed" -> [mockAuditClean EXCEPT !.pii_detected = "null",
                                                   !.request_blocked = "null"]

\* switch (selectedScenario): auditError
ScenarioAuditError(s) == s = "timeout"

HarnessProps(s) ==
    [response       |-> mockResponse,
     error          |-> Null,
     isLoading      |-> FALSE,
     auditLog       |-> ScenarioLog(s),
     open           |-> TRUE,
     sidebarLoading |-> (ScenarioLog(s) = Null /\ ~ScenarioAuditError(s)),
     auditError     |-> ScenarioAuditError(s)]

PropsSet ==
    [response       : ChatResponse \cup {Null},
     error          : GatewayError \cup {Null},
     isLoading      : BOOLEAN,
     auditLog       : AuditLog \cup {Null},
     open           : BOOLEAN,
     sidebarLoading : BOOLEAN,
     auditError     : BOOLEAN]

PollIdle ==
    /\ pollPc = "idle"
    /\ pollI = 0
    /\ pollReq = "test-uuid"
    /\ pollAttempts = 0
    /\ pollResult = Null
    /\ pollFetches = 0
    /\ pollErrors = 0
    /\ pollWaits = 0

\* Submissions of the dashboard that are followed through; each runs as the
\* invocation of submitRequest with its number.
MaxSubmits == 2

Calls == 1 .. MaxSubmits

\* An invocation that is not running.
FreeCall ==
    [pc |-> "free", status |-> 0, fullContent |-> <<>>, capSources |-> Items(<<>>)]

NoMark == [call |-> 0, kind |-> "none"]

\* The useState initial values of SabhyaDashboard, nothing in localStorage.
DashFresh ==
    /\ promptInput = <<>>
    /\ processingState = "IDLE"
    /\ responseOutput = Null
    /\ piiWarning = FALSE
    /\ chatHistory = <<>>
    /\ streamingText = <<>>
    /\ isStreaming = FALSE
    /\ currentSources = Items(<<>>)
    /\ isConnected = TRUE
    /\ dashStorage = Null
    /\ calls = [c \in Calls |-> FreeCall]
    /\ submits = 0
    /\ marked = NoMark

SplitFresh ==
    /\ splitText = <<>>
    /\ splitDone = FALSE
    /\ splitView = NothingStreamed
    /\ splitStored = Null

PanelFresh ==
    /\ panelInput = ""
    /\ messages = <<>>
    /\ loading = FALSE
    /\ expandedThinking = {}
    /\ panelPending = 0
    /\ panelStorage = Null

\* Invocations of fetchLogs that are followed at the same time.
MaxFetches == 2

LogCalls == 1 .. MaxFetches

NoFetch == [pc |-> "free", by |-> "none"]

\* The useState initial values of the governance-logs state, before the
\* mount effect has run.
LogsFresh ==
    /\ logsList = <<>>
    /\ isLogsLoading = FALSE
    /\ logsError = Null
    /\ logsTimer = FALSE
    /\ logsCalls = [c \in LogCalls |-> NoFetch]

NoGateHistory == [removed |-> FALSE, outcome |-> "none"]

\* A new browser tab on the login page of the (auth) group: both storages
\* without entries, no gate mounted, the login page idle.
AuthFresh ==
    /\ route = "auth-login"
    /\ sessionStorage = {}
    /\ localStorage = {}
    /\ authorized = FALSE
    /\ isAuthenticated = FALSE
    /\ gatePc = "none"
    /\ gateView = "none"
    /\ loginPc = "idle"
    /\ loginLoading = FALSE
    /\ loginError = ""
    /\ gateHistory = NoGateHistory

\* GovernanceLogs renders "Loading audit trail..." first: loading starts true.
GovFresh ==
    /\ govLogs = <<>>
    /\ govLoading = TRUE
    /\ govError = Null
    /\ govPending = 0
    /\ govTable = [kind |-> "loading", flags |-> <<>>]
    /\ govCsv = Null

\* No response body is being read.
WireFresh ==
    /\ wire = <<>>
    /\ wireRead = 0
    /\ wireContent = <<>>

ShellFresh ==
    /\ LogsFresh
    /\ AuthFresh
    /\ GovFresh
    /\ WireFresh

InitView ==
    /\ selectedScenario = "clean"
    /\ props \in PropsSet
    /\ viewerView = Unrendered
    /\ sidebarView = SidebarUnrendered
    /\ PollIdle
    /\ PanelFresh
    /\ SplitFresh
    /\ DashFresh
    /\ ShellFresh

\* A parent renders <ResponseViewer .../> with the current props.
RenderResponseViewer ==
    /\ viewerView' = ResponseViewer(props.response, props.error, props.isLoading,
                                    props.auditLog)
    /\ UNCHANGED <<selectedScenario, props, sidebarView>>
    /\ UNCHANGED <<pollVars, panelVars, splitVars, dashVars, shellVars>>

\* A parent renders <AuditSidebar .../> with the current props.
RenderAuditSidebar ==
    /\ sidebarView' = AuditSidebar(props.open, props.auditLog, props.sidebarLoading,
                                   props.auditError)
    /\ UNCHANGED <<selectedScenario, props, viewerView>>
    /\ UNCHANGED <<pollVars, panelVars, splitVars, dashVars, shellVars>>

\* A scenario button of the harness: setSelectedScenario(s) and the re-render
\* of both components with the scenario's data.
SelectScenario(s) ==
    /\ selectedScenario' = s
    /\ props' = HarnessProps(s)
    /\ viewerView' = ResponseViewer(mockResponse, Null, FALSE, ScenarioLog(s))
    /\ sidebarView' = AuditSidebar(TRUE, ScenarioLog(s),
                                   ScenarioLog(s) = Null /\ ~ScenarioAuditError(s),
                                   ScenarioAuditError(s))
    /\ UNCHANGED <<pollVars, panelVars, splitVars, dashVars, shellVars>>

NextView ==
    \/ RenderResponseViewer
    \/ RenderAuditSidebar
    \/ \E s \in Scenarios : SelectScenario(s)

SpecView == InitView /\ [][NextView]_vars

-----------------------------------------------------------------------------
(* Part 2  ApiService.getAuditLog(requestId, attempts = 5, delay = 1000)   *)
(* and the page that shows its result in ResponseViewer.                   *)

DefaultAttempts == 5

MaxAttempts == 2

MaxLogs == 2

\* The values the attempts argument takes: the default and small explicit ones.
AttemptsSet == (0 .. MaxAttempts) \cup {DefaultAttempts}

\* The records a list carries, as AuditLog types them: both flags boolean | null.
FetchedLogs ==
    {r \in AuditLog : r.pii_detected # "undefined" /\ r.request_blocked # "undefined"}

\* What GET /v1/audit/logs?limit=50 can answer: a list of audit records.
LogLists == UNION {[1 .. n -> FetchedLogs] : n \in 0 .. MaxLogs}

\* A find that takes the first record of the list, whatever its request_id.
FindFirstRecord(logs, requestId) ==
    IF Len(logs) = 0 THEN Null ELSE logs[1]

\* logs.find((l) => l.request_id === requestId): the first match, or undefined.
Find(logs, requestId) ==
    LET hits == {k \in 1 .. Len(logs) : logs[k].request_id = requestId}
    IN  IF hits = {} THEN Null
        ELSE logs[CHOOSE k \in hits : \A j \in hits : k <= j]

\* The call: let i = 0 and the first test of the loop condition.
GetAuditLogCall(requestId, attempts) ==
    /\ pollPc = "idle"
    /\ pollReq' = requestId
    /\ pollAttempts' = attempts
    /\ pollI' = 0
    /\ pollFetches' = IF 0 < attempts THEN 1 ELSE 0
    /\ pollErrors' = 0
    /\ pollWaits' = 0
    /\ pollResult' = Null
    /\ pollPc' = IF 0 < attempts THEN "fetching" ELSE "returned"

\* An attempt that is followed by the delay whatever i is.
AfterAttemptAlwaysWaits ==
    /\ pollPc' = "waiting"
    /\ pollWaits' = pollWaits + 1
    /\ UNCHANGED <<pollI, pollResult, pollFetches>>

\* After an attempt that found nothing (or threw): wait if i < attempts - 1,
\* else i++ ends the loop and the call returns null.
AfterAttempt ==
    IF pollI < pollAttempts - 1
    THEN /\ pollPc' = "waiting"
         /\ pollWaits' = pollWaits + 1
         /\ UNCHANGED <<pollI, pollResult, pollFetches>>
    ELSE /\ pollPc' = "returned"
         /\ pollI' = pollI + 1
         /\ pollResult' = Null
         /\ UNCHANGED <<pollWaits, pollFetches>>

\* await this.getRecentLogs(50) resolves with a list.
FetchResolves(logs) ==
    /\ pollPc = "fetching"
    /\ IF Find(logs, pollReq) # Null
       THEN /\ pollPc' = "returned"
            /\ pollResult' = Find(logs, pollReq)
            /\ UNCHANGED <<pollI, pollWaits, pollFetches>>
       ELSE AfterAttempt
    /\ UNCHANGED <<pollReq, pollAttempts, pollErrors>>
    /\ UNCHANGED <<viewVars, panelVars, splitVars, dashVars, shellVars>>

\* await this.getRecentLogs(50) rejects: the catch block logs and waits.
FetchRejects ==
    /\ pollPc = "fetching"
    /\ pollErrors' = pollErrors + 1
    /\ AfterAttempt
    /\ UNCHANGED <<pollReq, pollAttempts>>
    /\ UNCHANGED <<viewVars, panelVars, splitVars, dashVars, shellVars>>

\* The setTimeout of the delay fires: i++, the loop test, the next fetch.
DelayElapses ==
    /\ pollPc = "waiting"
    /\ pollI' = pollI + 1
    /\ IF pollI + 1 < pollAttempts
       THEN /\ pollPc' = "fetching"
            /\ pollFetches' = pollFetches + 1
            /\ UNCHANGED pollResult
       ELSE /\ pollPc' = "returned"
            /\ pollResult' = Null
            /\ UNCHANGED pollFetches
    /\ UNCHANGED <<pollReq, pollAttempts, pollErrors, pollWaits>>
    /\ UNCHANGED <<viewVars, panelVars, splitVars, dashVars, shellVars>>

\* The page that owns the request (not among the sources): on submit it shows
\* the transport response with no audit record and asks for the record of the
\* request; when the call resolves it passes the result on as auditLog.
PageSubmit(response, requestId, attempts) ==
    /\ GetAuditLogCall(requestId, attempts)
    /\ props' = [props EXCEPT !.response = response, !.error = Null,
                              !.isLoading = FALSE, !.auditLog = Null]
    /\ viewerView' = ResponseViewer(response, Null, FALSE, Null)
    /\ UNCHANGED <<selectedScenario, sidebarView, panelVars, splitVars, dashVars, shellVars>>

PageReceivesAudit ==
    /\ pollPc = "returned"
    /\ pollPc' = "idle"
    /\ props' = [props EXCEPT !.auditLog = pollResult]
    /\ viewerView' = ResponseViewer(props.response, props.error, props.isLoading,
                                    pollResult)
    /\ UNCHANGED <<pollI, pollReq, pollAttempts, pollResult, pollFetches,
                   pollErrors, pollWaits>>
    /\ UNCHANGED <<selectedScenario, sidebarView, panelVars, splitVars, dashVars, shellVars>>

InitPoll ==
    /\ selectedScenario = "clean"
    /\ props = HarnessProps("pending")
    /\ viewerView = Unrendered
    /\ sidebarView = SidebarUnrendered
    /\ PollIdle
    /\ PanelFresh
    /\ SplitFresh
    /\ DashFresh
    /\ ShellFresh

NextPoll ==
    \/ \E r \in ChatResponse, id \in RequestIds, n \in AttemptsSet : PageSubmit(r, id, n)
    \/ \E logs \in LogLists : FetchResolves(logs)
    \/ FetchRejects
    \/ DelayElapses
    \/ PageReceivesAudit

SpecPoll == InitPoll /\ [][NextPoll]_vars

\* Every await of getAuditLog settles: a fetch that was issued resolves or
\* rejects, and the timer of a delay fires.
SpecPollFair ==
    /\ SpecPoll
    /\ WF_vars(FetchRejects \/ \E logs \in LogLists : FetchResolves(logs))
    /\ WF_vars(DelayElapses)

-----------------------------------------------------------------------------
(* Part 3  components/InteractionPanel.tsx *)

MaxPanelMsgs == 4

\* What the textarea can hold: nothing, blanks only, a prompt.
PanelInputs == {"", "  ", "hello"}

\* input.trim() is non-empty
NonBlank(text) == text \notin {"", "  "}

PanelSources == {Items(<<>>), Items(<<"policy.pdf">>),
                 Items(<<"policy.pdf", "policy.pdf">>),
                 Items(<<"policy.pdf", "hr.pdf">>)}

\* The ChatResponse of api.chat, as far as handleSubmit reads it: sources and
\* usage may be missing (Null), choices may be empty.
PanelResponses ==
    [choices : {<<>>, <<"answer">>},
     sources : PanelSources \cup {Null},
     usage   : {Null, [completion_tokens |-> 0], [completion_tokens |-> 20]}]

\* Array.from(new Set(sources.map(s => s.source))).map(find).filter(defined):
\* the sources in order of first occurrence, without repetitions.
RECURSIVE UniqueSources(_)
UniqueSources(srcs) ==
    IF srcs = <<>> THEN <<>>
    ELSE LET init == UniqueSources(SubSeq(srcs, 1, Len(srcs) - 1))
             last == srcs[Len(srcs)]
         IN  IF \E k \in 1 .. Len(init) : init[k] = last
             THEN init ELSE Append(init, last)

UserMessage(text) ==
    [role |-> "user", content |-> text, sources |-> Null, meta |-> Null]

AssistantMessage(response) ==
    [role    |-> "assistant",
     content |-> response.choices[1],
     sources |-> IF response.sources = Null THEN Items(<<>>)
                 ELSE Items(UniqueSources(response.sources.items)),
     meta    |-> [tokens |-> IF response.usage = Null THEN 0
                             ELSE response.usage.completion_tokens]]

ErrorNotice ==
    [role |-> "assistant", content |-> "Error: Failed to connect to Sabhya AI backend.",
     sources |-> Null, meta |-> Null]

\* handleSubmit performs no audit lookup and the message it stores carries no
\* audit record: the audit record known for a stored message is always none.
PanelAuditLog(msg) == Null

\* onChange of the textarea
PanelType(text) ==
    /\ panelInput' = text
    /\ UNCHANGED <<messages, loading, expandedThinking, panelPending, panelStorage>>
    /\ UNCHANGED <<viewVars, pollVars, splitVars, dashVars, shellVars>>

\* handleSubmit up to the await; the save effect stores the new list.  The
\* button is disabled while loading, the Enter key is not.
HandleSubmit(viaButton) ==
    /\ viaButton => ~loading
    /\ NonBlank(panelInput)
    /\ Len(messages) + 2 * panelPending + 2 <= MaxPanelMsgs
    /\ messages' = Append(messages, UserMessage(panelInput))
    /\ panelStorage' = Json(messages')
    /\ panelInput' = ""
    /\ loading' = TRUE
    /\ panelPending' = panelPending + 1
    /\ UNCHANGED expandedThinking
    /\ UNCHANGED <<viewVars, pollVars, splitVars, dashVars, shellVars>>

\* api.chat resolves: the rest of the try block, then finally.
ChatResolves(response) ==
    /\ panelPending > 0
    /\ panelPending' = panelPending - 1
    /\ messages' = IF Len(response.choices) = 0
                   THEN Append(messages, ErrorNotice)
                   ELSE Append(messages, AssistantMessage(response))
    /\ panelStorage' = Json(messages')
    /\ loading' = FALSE
    /\ UNCHANGED <<panelInput, expandedThinking>>
    /\ UNCHANGED <<viewVars, pollVars, splitVars, dashVars, shellVars>>

\* api.chat rejects: the catch block, then finally.
ChatRejects ==
    /\ panelPending > 0
    /\ panelPending' = panelPending - 1
    /\ messages' = Append(messages, ErrorNotice)
    /\ panelStorage' = Json(messages')
    /\ loading' = FALSE
    /\ UNCHANGED <<panelInput, expandedThinking>>
    /\ UNCHANGED <<viewVars, pollVars, splitVars, dashVars, shellVars>>

\* SHOW / HIDE PROCESS, rendered for assistant messages that have meta
ToggleThinking(idx) ==
    /\ idx \in 1 .. Len(messages)
    /\ messages[idx].role = "assistant"
    /\ messages[idx].meta # Null
    /\ expandedThinking' = IF idx \in expandedThinking
                           THEN expandedThinking \ {idx}
                           ELSE expandedThinking \cup {idx}
    /\ UNCHANGED <<panelInput, messages, loading, panelPending, panelStorage>>
    /\ UNCHANGED <<viewVars, pollVars, splitVars, dashVars, shellVars>>

\* CLEAR CHAT, confirmed: removeItem, then the save effect writes "[]".
ClearChat ==
    /\ messages' = <<>>
    /\ panelStorage' = Json(<<>>)
    /\ expandedThinking' = {}
    /\ UNCHANGED <<panelInput, loading, panelPending>>
    /\ UNCHANGED <<viewVars, pollVars, splitVars, dashVars, shellVars>>

\* JSON.parse(savedHistory) of the load effect; what the save effect wrote is
\* JSON.stringify(messages), which parses back to the same list (a field that
\* was undefined is missing again).  Nothing stored: the state is not set.
LoadHistory(savedHistory) ==
    IF savedHistory = Null THEN <<>> ELSE savedHistory.json

\* The page is reloaded: the component is unmounted with its pending calls and
\* mounted again with the useState initial values; the load effect sets
\* the messages from localStorage and the save effect stores them.
PanelReload ==
    /\ panelInput' = ""
    /\ loading' = FALSE
    /\ expandedThinking' = {}
    /\ panelPending' = 0
    /\ messages' = LoadHistory(panelStorage)
    /\ panelStorage' = Json(messages')
    /\ UNCHANGED <<viewVars, pollVars, splitVars, dashVars, shellVars>>

\* The GOVERNANCE TRACE block of message idx is on screen, with its lines
\* 'Safety Check: PASSED' and 'PII Scan: CLEAN'.
ShowsPassed(idx) ==
    /\ idx \in 1 .. Len(messages)
    /\ idx \in expandedThinking
    /\ messages[idx].meta # Null

InitPanel ==
    /\ selectedScenario = "clean"
    /\ props = HarnessProps("pending")
    /\ viewerView = Unrendered
    /\ sidebarView = SidebarUnrendered
    /\ PollIdle
    /\ PanelFresh
    /\ SplitFresh
    /\ DashFresh
    /\ ShellFresh

NextPanel ==
    \/ \E text \in PanelInputs : PanelType(text)
    \/ \E viaButton \in BOOLEAN : HandleSubmit(viaButton)
    \/ \E response \in PanelResponses : ChatResolves(response)
    \/ ChatRejects
    \/ \E idx \in 1 .. MaxPanelMsgs : ToggleThinking(idx)
    \/ ClearChat
    \/ PanelReload

SpecPanel == InitPanel /\ [][NextPanel]_vars

-----------------------------------------------------------------------------
(* Part 4  The thought/content splitter applied to a growing stream text *)

MaxText == 4

\* A token event: fullContent += token; setStreamingText(fullContent); render.
TokenArrives(atom) ==
    /\ ~splitDone
    /\ Len(splitText) < MaxText
    /\ splitText' = Append(splitText, atom)
    /\ splitView' = StreamingRender(TRUE, splitText')
    /\ UNCHANGED <<splitDone, splitStored>>
    /\ UNCHANGED <<viewVars, pollVars, panelVars, dashVars, shellVars>>

\* The done event: the message is stored, isStreaming becomes false.
DoneArrives ==
    /\ ~splitDone
    /\ splitDone' = TRUE
    /\ splitStored' = DoneExtract(splitText)
    /\ splitView' = StreamingRender(FALSE, splitText)
    /\ UNCHANGED splitText
    /\ UNCHANGED <<viewVars, pollVars, panelVars, dashVars, shellVars>>

\* The next submission: setStreamingText(""), setIsStreaming(true).
StreamRestarts ==
    /\ splitDone
    /\ splitDone' = FALSE
    /\ splitText' = <<>>
    /\ splitView' = StreamingRender(TRUE, <<>>)
    /\ splitStored' = Null
    /\ UNCHANGED <<viewVars, pollVars, panelVars, dashVars, shellVars>>

InitSplit ==
    /\ selectedScenario = "clean"
    /\ props = HarnessProps("pending")
    /\ viewerView = Unrendered
    /\ sidebarView = SidebarUnrendered
    /\ PollIdle
    /\ PanelFresh
    /\ SplitFresh
    /\ DashFresh
    /\ ShellFresh

NextSplit ==
    \/ \E atom \in Atoms : TokenArrives(atom)
    \/ DoneArrives
    \/ StreamRestarts

SpecSplit == InitSplit /\ [][NextSplit]_vars

-----------------------------------------------------------------------------
(* Part 5  SabhyaDashboard, app/(protected)/page.tsx: submitRequest with   *)
(* streaming.  Each await of submitRequest is a point where other handlers *)
(* run; a chunk is handled line by line, and since chunk boundaries may    *)
(* fall between any two lines, one line is one step.                       *)

\* The length fullContent is followed up to.
MaxContent == 1

PromptInputs == {<<SP>>, <<CH>>}

HttpStatuses == {403}

HttpResponses ==
    {[ok |-> TRUE, status |-> 200, body |-> b] : b \in BOOLEAN}
        \cup {[ok |-> FALSE, status |-> st, body |-> TRUE] : st \in HttpStatuses}

getErrorMessage(status) ==
    CASE status = 400 -> "BAD REQUEST (400)"
      [] status = 401 -> "UNAUTHORIZED (401)"
      [] status = 403 -> "FORBIDDEN (403)"
      [] status = 404 -> "NOT FOUND (404)"
      [] status = 429 -> "RATE LIMIT EXCEEDED (429)"
      [] status = 500 -> "SERVER ERROR (500)"
      [] status = 502 -> "BAD GATEWAY (502)"
      [] status = 503 -> "SERVICE UNAVAILABLE (503)"
      [] OTHER -> "HTTP ERROR"

\* The parsed payload of a data: line, by the fields the handler reads.
\* error "" and token <<>> stand for an absent (falsy) field.
SseEvent ==
    [error        : {"", "Policy violation"},
     token        : {<<>>, <<CH>>},
     done         : BOOLEAN,
     sources      : {Null, Items(<<"policy.pdf">>)},
     pii_detected : BOOLEAN]

NoEvent ==
    [error |-> "", token |-> <<>>, done |-> FALSE, sources |-> Null,
     pii_detected |-> FALSE]

\* The events the stream delivers: an error event, a token event, a done
\* event with its metadata.  Fields the handler never gets to read are left
\* at their defaults.
Events ==
    {e \in SseEvent :
        /\ e.error # "" => e = [NoEvent EXCEPT !.error = e.error]
        /\ ~e.done => (e.sources = Null /\ ~e.pii_detected)
        /\ e.error = "" => (e.done <=> e.token = <<>>)}

\* A line of a chunk: "other" does not start with "data: ", "sentinel" is
\* data: [DONE], "malformed" carries a payload JSON.parse throws on, "null"
\* carries the JSON null, "event" carries an object.
Lines ==
    [kind : {"other", "sentinel", "malformed", "null"}, event : {NoEvent}]
        \cup [kind : {"event"}, event : Events]

MalformedLine == [kind |-> "malformed", event |-> NoEvent]

SentinelLine == [kind |-> "sentinel", event |-> NoEvent]

DashUserMessage(text) ==
    [role |-> "user", content |-> text, sources |-> Null, thought_process |-> Null]

\* useEffect(..., [chatHistory]): written only when the history is not empty
Persist(history, storage) ==
    IF Len(history) > 0 THEN Json(history) ELSE storage

\* if (parsed.pii_detected) setPiiWarning(true): the banner "PII PATTERN
\* DETECTED IN REQUEST - Data flagged in audit log" after the done event e
PiiWarningAfterDone(e) == IF e.pii_detected THEN TRUE ELSE piiWarning

\* onChange of the textarea (disabled while PROCESSING)
TypePrompt(text) ==
    /\ processingState # "PROCESSING"
    /\ promptInput' = text
    /\ UNCHANGED <<processingState, responseOutput, piiWarning, chatHistory,
                   streamingText, isStreaming, currentSources, isConnected,
                   dashStorage, calls, submits, marked>>
    /\ UNCHANGED <<viewVars, pollVars, panelVars, splitVars, shellVars>>

\* SubmitRequest with setChatHistory([userMessage]) in place of the append.
SubmitRequestReplaces ==
    /\ Trim(promptInput) # <<>>
    /\ processingState # "PROCESSING"
    /\ submits < MaxSubmits
    /\ submits' = submits + 1
    /\ chatHistory' = <<DashUserMessage(promptInput)>>
    /\ processingState' = "PROCESSING"
    /\ streamingText' = <<>>
    /\ isStreaming' = TRUE
    /\ currentSources' = Items(<<>>)
    /\ piiWarning' = FALSE
    /\ promptInput' = <<>>
    /\ calls' = [calls EXCEPT ![submits + 1] =
                    [FreeCall EXCEPT !.pc = "fetching", !.capSources = currentSources]]
    /\ dashStorage' = Persist(chatHistory', dashStorage)
    /\ UNCHANGED <<responseOutput, isConnected, marked>>
    /\ UNCHANGED <<viewVars, pollVars, panelVars, splitVars, shellVars>>

\* submitRequest up to its first await
SubmitRequest ==
    /\ Trim(promptInput) # <<>>
    /\ processingState # "PROCESSING"
    /\ submits < MaxSubmits
    /\ submits' = submits + 1
    /\ chatHistory' = Append(chatHistory, DashUserMessage(promptInput))
    /\ processingState' = "PROCESSING"
    /\ streamingText' = <<>>
    /\ isStreaming' = TRUE
    /\ currentSources' = Items(<<>>)
    /\ piiWarning' = FALSE
    /\ promptInput' = <<>>
    /\ calls' = [calls EXCEPT ![submits + 1] =
                    [FreeCall EXCEPT !.pc = "fetching", !.capSources = currentSources]]
    /\ dashStorage' = Persist(chatHistory', dashStorage)
    /\ UNCHANGED <<responseOutput, isConnected, marked>>
    /\ UNCHANGED <<viewVars, pollVars, panelVars, splitVars, shellVars>>

\* The invocation c has ended.
Unmark(c) == IF marked.call = c THEN NoMark ELSE marked

\* ConnectionFailed without setIsConnected(false).
ConnectionFailedStaysUp(c) ==
    /\ processingState' = "ERROR"
    /\ responseOutput' = [text |-> <<"ERROR: CONNECTION FAILED">>]
    /\ isStreaming' = FALSE
    /\ calls' = [calls EXCEPT ![c] = FreeCall]
    /\ marked' = Unmark(c)
    /\ UNCHANGED <<promptInput, piiWarning, chatHistory, streamingText,
                   currentSources, isConnected, dashStorage, submits>>

\* catch (_err): fetch, res.text() or reader.read() rejected
ConnectionFailed(c) ==
    /\ processingState' = "ERROR"
    /\ responseOutput' = [text |-> <<"ERROR: CONNECTION FAILED">>]
    /\ isStreaming' = FALSE
    /\ isConnected' = FALSE
    /\ calls' = [calls EXCEPT ![c] = FreeCall]
    /\ marked' = Unmark(c)
    /\ UNCHANGED <<promptInput, piiWarning, chatHistory, streamingText,
                   currentSources, dashStorage, submits>>

DashFetchRejects(c) ==
    /\ calls[c].pc = "fetching"
    /\ ConnectionFailed(c)
    /\ UNCHANGED <<viewVars, pollVars, panelVars, splitVars, shellVars>>

\* await fetch(...) resolves; without a body the function ends silently
DashFetchResolves(c, res) ==
    /\ calls[c].pc = "fetching"
    /\ calls' = [calls EXCEPT ![c] =
                    IF ~res.ok THEN [@ EXCEPT !.pc = "errorBody", !.status = res.status]
                    ELSE IF res.body THEN [@ EXCEPT !.pc = "reading"]
                    ELSE FreeCall]
    /\ UNCHANGED <<display, submits, marked>>
    /\ UNCHANGED <<viewVars, pollVars, panelVars, splitVars, shellVars>>

\* if (!res.ok): await res.text() resolves
ErrorBodyResolves(c) ==
    /\ calls[c].pc = "errorBody"
    /\ processingState' = "ERROR"
    /\ responseOutput' = [text |-> <<"ERROR: ", getErrorMessage(calls[c].status)>>]
    /\ isStreaming' = FALSE
    /\ calls' = [calls EXCEPT ![c] = FreeCall]
    /\ UNCHANGED <<promptInput, piiWarning, chatHistory, streamingText,
                   currentSources, isConnected, dashStorage, submits, marked>>
    /\ UNCHANGED <<viewVars, pollVars, panelVars, splitVars, shellVars>>

ErrorBodyRejects(c) ==
    /\ calls[c].pc = "errorBody"
    /\ ConnectionFailed(c)
    /\ UNCHANGED <<viewVars, pollVars, panelVars, splitVars, shellVars>>

\* reader.read() resolves with done: break, and the function ends
ReadEnds(c) ==
    /\ calls[c].pc = "reading"
    /\ calls' = [calls EXCEPT ![c] = FreeCall]
    /\ marked' = Unmark(c)
    /\ UNCHANGED <<display, submits>>
    /\ UNCHANGED <<viewVars, pollVars, panelVars, splitVars, shellVars>>

ReadRejects(c) ==
    /\ calls[c].pc = "reading"
    /\ ConnectionFailed(c)
    /\ UNCHANGED <<viewVars, pollVars, panelVars, splitVars, shellVars>>

\* if (data === "[DONE]") continue, a line without the data: prefix, and the
\* empty catch {} around JSON.parse and the handling of the parsed value:
\* the loop goes on to the next line.
SkipLine(c, line) ==
    /\ marked' = IF line.kind = "sentinel"
                     \/ (line.kind = "malformed" /\ calls[c].fullContent = <<>>)
                 THEN [call |-> c, kind |-> line.kind]
                 ELSE marked
    /\ UNCHANGED <<display, calls, submits>>

\* SkipInvalidJson with the parse error let through to the outer catch.
InvalidJsonIsFatal(c, line) == ConnectionFailed(c)

\* catch { // Skip invalid JSON }
SkipInvalidJson(c, line) == SkipLine(c, line)

\* if (parsed.error) { ...; return }
ApplyError(c, e) ==
    /\ processingState' = "ERROR"
    /\ responseOutput' = [text |-> <<"ERROR: ", e.error>>]
    /\ isStreaming' = FALSE
    /\ calls' = [calls EXCEPT ![c] = FreeCall]
    /\ marked' = Unmark(c)
    /\ UNCHANGED <<promptInput, piiWarning, chatHistory, streamingText,
                   currentSources, isConnected, dashStorage, submits>>

\* if (parsed.token) { fullContent += parsed.token; setStreamingText(fullContent) }
ApplyToken(c, e) ==
    /\ calls' = [calls EXCEPT ![c].fullContent = @ \o e.token]
    /\ streamingText' = IF e.token # <<>> THEN calls[c].fullContent \o e.token
                        ELSE streamingText
    /\ UNCHANGED <<promptInput, processingState, responseOutput, piiWarning,
                   chatHistory, isStreaming, currentSources, isConnected,
                   dashStorage, submits, marked>>

\* if (parsed.done) { ...; return }, after the token of the same event
ApplyDone(c, e) ==
    LET full == calls[c].fullContent \o e.token
        extracted == DoneExtract(full)
        fromEvent == e.sources # Null /\ Len(e.sources.items) > 0
        sources == IF fromEvent THEN e.sources ELSE calls[c].capSources
        assistantMessage ==
            [role            |-> "assistant",
             content         |-> extracted.content,
             sources         |-> IF Len(sources.items) > 0 THEN sources ELSE Null,
             thought_process |-> extracted.thought_process]
    IN  /\ streamingText' = IF e.token # <<>> THEN full ELSE streamingText
        /\ currentSources' = IF fromEvent THEN e.sources ELSE currentSources
        /\ piiWarning' = PiiWarningAfterDone(e)
            /\ chatHistory' = Append(chatHistory, assistantMessage)
        /\ responseOutput' = [text |-> extracted.content]
        /\ processingState' = "COMPLETED"
        /\ isStreaming' = FALSE
        /\ isConnected' = TRUE
        /\ dashStorage' = Persist(chatHistory', dashStorage)
        /\ calls' = [calls EXCEPT ![c] = FreeCall]
        /\ marked' = Unmark(c)
        /\ UNCHANGED <<promptInput, submits>>

\* One line of for (const line of lines) { ... }
ReadLine(c, line) ==
    /\ calls[c].pc = "reading"
    /\ (line.kind = "event" /\ line.event.error = "")
           => Len(calls[c].fullContent) + Len(line.event.token) <= MaxContent
    /\ CASE line.kind = "other"     -> SkipLine(c, line)
         [] line.kind = "sentinel"  -> SkipLine(c, line)
         [] line.kind = "malformed" -> SkipInvalidJson(c, line)
         \* parsed.error on null throws a TypeError, caught as well
         [] line.kind = "null"      -> SkipLine(c, line)
         [] line.kind = "event"     ->
                IF line.event.error # "" THEN ApplyError(c, line.event)
                ELSE IF line.event.done THEN ApplyDone(c, line.event)
                ELSE ApplyToken(c, line.event)
    /\ UNCHANGED <<viewVars, pollVars, panelVars, splitVars, shellVars>>

\* clearOutput; the save effect skips the empty history
ClearOutput ==
    /\ processingState' = "IDLE"
    /\ responseOutput' = Null
    /\ piiWarning' = FALSE
    /\ promptInput' = <<>>
    /\ chatHistory' = <<>>
    /\ streamingText' = <<>>
    /\ currentSources' = Items(<<>>)
    /\ dashStorage' = Persist(chatHistory', dashStorage)
    /\ UNCHANGED <<isStreaming, isConnected, calls, submits, marked>>
    /\ UNCHANGED <<viewVars, pollVars, panelVars, splitVars, shellVars>>

InitStream ==
    /\ selectedScenario = "clean"
    /\ props = HarnessProps("pending")
    /\ viewerView = Unrendered
    /\ sidebarView = SidebarUnrendered
    /\ PollIdle
    /\ PanelFresh
    /\ SplitFresh
    /\ DashFresh
    /\ ShellFresh

NextStream ==
    \/ \E text \in PromptInputs : TypePrompt(text)
    \/ SubmitRequest
    \/ \E c \in Calls : DashFetchRejects(c)
    \/ \E c \in Calls, res \in HttpResponses : DashFetchResolves(c, res)
    \/ \E c \in Calls : ErrorBodyResolves(c)
    \/ \E c \in Calls : ErrorBodyRejects(c)
    \/ \E c \in Calls, line \in Lines : ReadLine(c, line)
    \/ \E c \in Calls : ReadEnds(c)
    \/ \E c \in Calls : ReadRejects(c)
    \/ ClearOutput

SpecStream == InitStream /\ [][NextStream]_vars

-----------------------------------------------------------------------------
(* Part 6  SabhyaDashboard, app/(protected)/page.tsx, first version: the   *)
(* governance logs.  fetchLogs is started by the mount effect, by the 30 s *)
(* interval the mount effect arms, and by the Refresh button; each of its  *)
(* awaits is a point where other handlers run.                             *)

\* The lists /v1/audit/logs answers with.
LogsData == UNION {[1 .. n -> FetchedLogs] : n \in 0 .. 1}

LogsHttpStatuses == {500}

\* Everything but isConnected of the dashboard state, which fetchLogs leaves
\* alone.
dashButConnected ==
    <<promptInput, processingState, responseOutput, piiWarning, chatHistory,
      streamingText, isStreaming, currentSources, dashStorage, calls, submits,
      marked>>

\* The invocation a call of fetchLogs runs as: the first one that is free.
NextFetch(c) ==
    /\ logsCalls[c].pc = "free"
    /\ \A b \in LogCalls : b < c => logsCalls[b].pc # "free"

\* fetchLogs up to its first await: setIsLogsLoading(true),
\* setLogsError(null), and the request is sent.
fetchLogs(c, by) ==
    /\ NextFetch(c)
    /\ isLogsLoading' = TRUE
    /\ logsError' = Null
    /\ logsCalls' = [logsCalls EXCEPT ![c] = [pc |-> "fetch", by |-> by]]

\* The mount effect: fetchLogs() and setInterval(fetchLogs, 30000).
LogsMount ==
    /\ ~logsTimer
    /\ logsTimer' = TRUE
    /\ \E c \in LogCalls : fetchLogs(c, "mount")
    /\ UNCHANGED <<logsList, isConnected>>
    /\ UNCHANGED <<viewVars, pollVars, panelVars, splitVars, dashButConnected, authVars, govVars, wireVars>>

\* The component unmounts: the effect's cleanup clears the interval, the
\* state is discarded, and what pending invocations set later is ignored.
LogsUnmount ==
    /\ logsTimer
    /\ logsTimer' = FALSE
    /\ logsList' = <<>>
    /\ isLogsLoading' = FALSE
    /\ logsError' = Null
    /\ logsCalls' = [c \in LogCalls |-> NoFetch]
    /\ isConnected' = TRUE
    /\ UNCHANGED <<viewVars, pollVars, panelVars, splitVars, dashButConnected, authVars, govVars, wireVars>>

\* The interval fires.
IntervalFires ==
    /\ logsTimer
    /\ \E c \in LogCalls : fetchLogs(c, "timer")
    /\ UNCHANGED <<logsList, logsTimer, isConnected>>
    /\ UNCHANGED <<viewVars, pollVars, panelVars, splitVars, dashButConnected, authVars, govVars, wireVars>>

\* The Refresh button: onClick={fetchLogs} disabled={isLogsLoading}.
RefreshClick ==
    /\ logsTimer
    /\ ~isLogsLoading
    /\ \E c \in LogCalls : fetchLogs(c, "user")
    /\ UNCHANGED <<logsList, logsTimer, isConnected>>
    /\ UNCHANGED <<viewVars, pollVars, panelVars, splitVars, dashButConnected, authVars, govVars, wireVars>>

\* The catch block and the finally block of fetchLogs.
LogsCatch(c, message) ==
    /\ logsError' = [message |-> message]
    /\ isConnected' = FALSE
    /\ isLogsLoading' = FALSE
    /\ logsCalls' = [logsCalls EXCEPT ![c] = NoFetch]
    /\ UNCHANGED <<logsList, logsTimer>>
    /\ UNCHANGED <<viewVars, pollVars, panelVars, splitVars, dashButConnected, authVars, govVars, wireVars>>

\* await fetch(...) resolves with an ok response: res.json() is awaited.
LogsFetchOk(c) ==
    /\ logsCalls[c].pc = "fetch"
    /\ logsCalls' = [logsCalls EXCEPT ![c].pc = "json"]
    /\ UNCHANGED <<logsList, isLogsLoading, logsError, logsTimer, isConnected>>
    /\ UNCHANGED <<viewVars, pollVars, panelVars, splitVars, dashButConnected, authVars, govVars, wireVars>>

\* await fetch(...) resolves with !res.ok: throw new Error("HTTP " + status).
LogsFetchNotOk(c, status) ==
    /\ logsCalls[c].pc = "fetch"
    /\ status \in LogsHttpStatuses
    /\ LogsCatch(c, "HTTP 500")

\* await fetch(...) rejects.
LogsFetchRejects(c) ==
    /\ logsCalls[c].pc = "fetch"
    /\ LogsCatch(c, "Failed to fetch")

\* await res.json() resolves: setLogs(data), setIsConnected(true), finally.
LogsJsonResolves(c, data) ==
    /\ logsCalls[c].pc = "json"
    /\ logsList' = data
    /\ isConnected' = TRUE
    /\ isLogsLoading' = FALSE
    /\ logsCalls' = [logsCalls EXCEPT ![c] = NoFetch]
    /\ UNCHANGED <<logsError, logsTimer>>
    /\ UNCHANGED <<viewVars, pollVars, panelVars, splitVars, dashButConnected, authVars, govVars, wireVars>>

\* await res.json() rejects.
LogsJsonRejects(c) ==
    /\ logsCalls[c].pc = "json"
    /\ LogsCatch(c, "Unexpected token")

InitLogs ==
    /\ selectedScenario = "clean"
    /\ props = HarnessProps("clean")
    /\ viewerView = Unrendered
    /\ sidebarView = SidebarUnrendered
    /\ PollIdle
    /\ PanelFresh
    /\ SplitFresh
    /\ DashFresh
    /\ ShellFresh

NextLogs ==
    \/ LogsMount
    \/ LogsUnmount
    \/ IntervalFires
    \/ RefreshClick
    \/ \E c \in LogCalls : LogsFetchOk(c)
    \/ \E c \in LogCalls, status \in LogsHttpStatuses : LogsFetchNotOk(c, status)
    \/ \E c \in LogCalls : LogsFetchRejects(c)
    \/ \E c \in LogCalls, data \in LogsData : LogsJsonResolves(c, data)
    \/ \E c \in LogCalls : LogsJsonRejects(c)

SpecLogs == InitLogs /\ [][NextLogs]_vars

-----------------------------------------------------------------------------
(* Part 7  The access gates and the login pages.  ProtectedLayout wraps    *)
(* the pages of the (protected) group (the dashboard, and the settings     *)
(* page the Header links to) and is kept mounted between them; Home        *)
(* (app/page.tsx) gates itself.  LoginPage of app/(auth)/login sets the    *)
(* session flag, LoginPage of app/login stores the token of                *)
(* /v1/auth/token.                                                         *)

Routes == {"auth-login", "login", "protected", "settings", "home"}

\* The pages rendered as children of ProtectedLayout.
LayoutRoutes == {"protected", "settings"}

\* data.access_token as setItem stores it: a token, or the text of undefined
\* when the answer carries none.
AccessTokens == {"jwt", "undefined"}

\* storage.getItem(key) is truthy
HasItem(storage, key) == \E e \in storage : e.key = key /\ e.value # ""

\* storage.setItem(key, value)
SetItem(storage, key, value) ==
    {e \in storage : e.key # key} \cup {[key |-> key, value |-> value]}

\* storage.removeItem(key)
RemoveItem(storage, key) == {e \in storage : e.key # key}

\* The keys with an entry in localStorage or sessionStorage.
StoredKeys ==
    {e.key : e \in localStorage \cup sessionStorage}
        \cup (IF panelStorage = Null THEN {} ELSE {"sabhya_chat_history"})
        \cup (IF dashStorage = Null THEN {} ELSE {"sabhya_chat_history_v1"})

\* What a gate renders: the spinner until its state flag is set.
GateRender(flag) == IF flag THEN "children" ELSE "verifying"

\* Page r is mounted with the useState initial values and rendered once;
\* the mount effect of its gate has not run yet.
Mounts(r) ==
    /\ route' = r
    /\ authorized' = FALSE
    /\ isAuthenticated' = FALSE
    /\ gatePc' = IF r \in LayoutRoutes \cup {"home"} THEN "mounted" ELSE "none"
    /\ gateView' = IF r \in LayoutRoutes \cup {"home"} THEN GateRender(FALSE) ELSE "none"
    /\ loginLoading' = FALSE
    /\ loginError' = ""

\* The user opens a URL (or reloads): the document is loaded anew, what was
\* pending in the old one is gone.  In a new tab sessionStorage starts empty.
Visit(r, newTab) ==
    /\ Mounts(r)
    /\ loginPc' = "idle"
    /\ sessionStorage' = IF newTab THEN {} ELSE sessionStorage
    /\ UNCHANGED <<localStorage, gateHistory>>
    /\ UNCHANGED <<viewVars, pollVars, panelVars, splitVars, dashVars, logsVars, govVars, wireVars>>

\* The mount effect of ProtectedLayout.
ProtectedLayoutEffect ==
    /\ route \in LayoutRoutes
    /\ gatePc = "mounted"
    /\ IF ~HasItem(sessionStorage, "sabhya_session")
       THEN /\ Mounts("auth-login")
            /\ gateHistory' = [gateHistory EXCEPT !.outcome = "redirected"]
       ELSE /\ authorized' = TRUE
            /\ gateView' = GateRender(TRUE)
            /\ gatePc' = "checked"
            /\ gateHistory' = [gateHistory EXCEPT !.outcome = "granted"]
            /\ UNCHANGED <<route, isAuthenticated, loginLoading, loginError>>
    /\ UNCHANGED <<sessionStorage, localStorage, loginPc>>
    /\ UNCHANGED <<viewVars, pollVars, panelVars, splitVars, dashVars, logsVars, govVars, wireVars>>

\* A mount effect that grants access whatever the storage holds.
HomeEffectOpen ==
    /\ route = "home"
    /\ gatePc = "mounted"
    /\ isAuthenticated' = TRUE
    /\ gateView' = GateRender(TRUE)
    /\ gatePc' = "checked"
    /\ gateHistory' = [gateHistory EXCEPT !.outcome = "granted"]
    /\ UNCHANGED <<route, authorized, loginLoading, loginError>>
    /\ UNCHANGED <<sessionStorage, localStorage, loginPc>>
    /\ UNCHANGED <<viewVars, pollVars, panelVars, splitVars, dashVars, logsVars, govVars, wireVars>>

\* The mount effect of Home.
HomeEffect ==
    /\ route = "home"
    /\ gatePc = "mounted"
    /\ IF ~HasItem(localStorage, "token")
       THEN /\ Mounts("login")
            /\ gateHistory' = [gateHistory EXCEPT !.outcome = "redirected"]
       ELSE /\ isAuthenticated' = TRUE
            /\ gateView' = GateRender(TRUE)
            /\ gatePc' = "checked"
            /\ gateHistory' = [gateHistory EXCEPT !.outcome = "granted"]
            /\ UNCHANGED <<route, authorized, loginLoading, loginError>>
    /\ UNCHANGED <<sessionStorage, localStorage, loginPc>>
    /\ UNCHANGED <<viewVars, pollVars, panelVars, splitVars, dashVars, logsVars, govVars, wireVars>>

\* The Header link to /settings and router.back(): a page change below the
\* layout, which stays mounted.
LayoutNavigate(r) ==
    /\ route \in LayoutRoutes
    /\ authorized
    /\ r \in LayoutRoutes \ {route}
    /\ route' = r
    /\ UNCHANGED <<sessionStorage, localStorage, authorized, isAuthenticated, gatePc,
                   gateView, loginPc, loginLoading, loginError, gateHistory>>
    /\ UNCHANGED <<viewVars, pollVars, panelVars, splitVars, dashVars, logsVars, govVars, wireVars>>

\* LoginPage of app/(auth)/login: handleLogin, the button is disabled while
\* isLoading.
AuthHandleLogin ==
    /\ route = "auth-login"
    /\ ~loginLoading
    /\ loginPc = "idle"
    /\ loginLoading' = TRUE
    /\ loginPc' = "timer"
    /\ UNCHANGED <<route, sessionStorage, localStorage, authorized, isAuthenticated,
                   gatePc, gateView, loginError, gateHistory>>
    /\ UNCHANGED <<viewVars, pollVars, panelVars, splitVars, dashVars, logsVars, govVars, wireVars>>

\* Its timeout fires: the session flag is set and router.push("/") mounts
\* the dashboard below ProtectedLayout.
AuthLoginTimer ==
    /\ loginPc = "timer"
    /\ loginPc' = "idle"
    /\ sessionStorage' = SetItem(sessionStorage, "sabhya_session", "active")
    /\ Mounts("protected")
    /\ UNCHANGED <<localStorage, gateHistory>>
    /\ UNCHANGED <<viewVars, pollVars, panelVars, splitVars, dashVars, logsVars, govVars, wireVars>>

\* LoginPage of app/login: handleLogin up to await fetch; the submit button
\* is disabled while loading.
HandleLogin ==
    /\ route = "login"
    /\ ~loginLoading
    /\ loginPc = "idle"
    /\ loginLoading' = TRUE
    /\ loginError' = ""
    /\ loginPc' = "fetch"
    /\ UNCHANGED <<route, sessionStorage, localStorage, authorized, isAuthenticated,
                   gatePc, gateView, gateHistory>>
    /\ UNCHANGED <<viewVars, pollVars, panelVars, splitVars, dashVars, logsVars, govVars, wireVars>>

\* The catch block and the finally block of handleLogin.
LoginCatch ==
    /\ loginError' = "Login failed. Please check your email and password."
    /\ loginLoading' = FALSE
    /\ loginPc' = "idle"
    /\ UNCHANGED <<route, sessionStorage, localStorage, authorized, isAuthenticated,
                   gatePc, gateView, gateHistory>>
    /\ UNCHANGED <<viewVars, pollVars, panelVars, splitVars, dashVars, logsVars, govVars, wireVars>>

\* await fetch("/v1/auth/token") resolves; !res.ok throws.
LoginFetchResolves(ok) ==
    /\ loginPc = "fetch"
    /\ IF ok
       THEN /\ loginPc' = "json"
            /\ UNCHANGED <<route, sessionStorage, localStorage, authorized,
                           isAuthenticated, gatePc, gateView, loginLoading,
                           loginError, gateHistory>>
            /\ UNCHANGED <<viewVars, pollVars, panelVars, splitVars, dashVars, logsVars, govVars, wireVars>>
       ELSE LoginCatch

\* await fetch("/v1/auth/token") rejects.
LoginFetchRejects ==
    /\ loginPc = "fetch"
    /\ LoginCatch

\* await res.json() resolves: the token is stored and router.push("/")
\* mounts Home.
LoginJsonResolves(access_token) ==
    /\ loginPc = "json"
    /\ loginPc' = "idle"
    /\ localStorage' = SetItem(localStorage, "token", access_token)
    /\ Mounts("home")
    /\ UNCHANGED <<sessionStorage, gateHistory>>
    /\ UNCHANGED <<viewVars, pollVars, panelVars, splitVars, dashVars, logsVars, govVars, wireVars>>

\* await res.json() rejects.
LoginJsonRejects ==
    /\ loginPc = "json"
    /\ LoginCatch

\* Sign Out of SettingsPage.
SignOut ==
    /\ route = "settings"
    /\ gateView = "children"
    /\ sessionStorage' = RemoveItem(sessionStorage, "sabhya_session")
    /\ Mounts("auth-login")
    /\ gateHistory' = [gateHistory EXCEPT !.removed = TRUE]
    /\ UNCHANGED <<localStorage, loginPc>>
    /\ UNCHANGED <<viewVars, pollVars, panelVars, splitVars, dashVars, logsVars, govVars, wireVars>>

\* [ LOGOUT ] of Home.
Logout ==
    /\ route = "home"
    /\ gateView = "children"
    /\ localStorage' = RemoveItem(localStorage, "token")
    /\ Mounts("login")
    /\ gateHistory' = [gateHistory EXCEPT !.removed = TRUE]
    /\ UNCHANGED <<sessionStorage, loginPc>>
    /\ UNCHANGED <<viewVars, pollVars, panelVars, splitVars, dashVars, logsVars, govVars, wireVars>>

InitAuth ==
    /\ selectedScenario = "clean"
    /\ props = HarnessProps("clean")
    /\ viewerView = Unrendered
    /\ sidebarView = SidebarUnrendered
    /\ PollIdle
    /\ PanelFresh
    /\ SplitFresh
    /\ DashFresh
    /\ ShellFresh

NextAuth ==
    \/ \E r \in Routes, newTab \in BOOLEAN : Visit(r, newTab)
    \/ ProtectedLayoutEffect
    \/ HomeEffect
    \/ \E r \in LayoutRoutes : LayoutNavigate(r)
    \/ AuthHandleLogin
    \/ AuthLoginTimer
    \/ HandleLogin
    \/ \E ok \in BOOLEAN : LoginFetchResolves(ok)
    \/ LoginFetchRejects
    \/ \E access_token \in AccessTokens : LoginJsonResolves(access_token)
    \/ LoginJsonRejects
    \/ SignOut
    \/ Logout

SpecAuth == InitAuth /\ [][NextAuth]_vars

-----------------------------------------------------------------------------
(* Part 8  components/GovernanceLogs.tsx: the audit table and its CSV      *)
(* export.                                                                 *)

\* The RISK FLAGS cell of a table row.
RiskFlagCell(log) ==
    IF Truthy(log.pii_detected) THEN "PII BLOCKED" ELSE "SAFE"

\* The Risk Flags column of a CSV row.
RiskFlagCsv(log) ==
    IF Truthy(log.pii_detected) THEN "PII BLOCKED" ELSE "SAFE"

\* The table body: the loading row, the empty row, or one row per log.
GovTableRender(isLoading, list) ==
    IF isLoading THEN [kind |-> "loading", flags |-> <<>>]
    ELSE IF Len(list) = 0 THEN [kind |-> "empty", flags |-> <<>>]
    ELSE [kind |-> "rows", flags |-> [k \in 1 .. Len(list) |-> RiskFlagCell(list[k])]]

\* fetchLogs up to the await: started by the mount effect and by the
\* refresh button, which is never disabled.
GovFetchLogs ==
    /\ govPending < MaxFetches
    /\ govPending' = govPending + 1
    /\ govLoading' = TRUE
    /\ govTable' = GovTableRender(TRUE, govLogs)
    /\ UNCHANGED <<govLogs, govError, govCsv>>
    /\ UNCHANGED <<viewVars, pollVars, panelVars, splitVars, dashVars, logsVars, authVars, wireVars>>

\* api.getAuditLogs() resolves: setLogs(data), setError(null), finally.
GovFetchResolves(data) ==
    /\ govPending > 0
    /\ govPending' = govPending - 1
    /\ govLogs' = data
    /\ govError' = Null
    /\ govLoading' = FALSE
    /\ govTable' = GovTableRender(FALSE, data)
    /\ UNCHANGED govCsv
    /\ UNCHANGED <<viewVars, pollVars, panelVars, splitVars, dashVars, logsVars, authVars, wireVars>>

\* api.getAuditLogs() rejects: the catch block, then finally.
GovFetchRejects ==
    /\ govPending > 0
    /\ govPending' = govPending - 1
    /\ govError' = [message |-> "Failed to fetch audit logs."]
    /\ govLoading' = FALSE
    /\ govTable' = GovTableRender(FALSE, govLogs)
    /\ UNCHANGED <<govLogs, govCsv>>
    /\ UNCHANGED <<viewVars, pollVars, panelVars, splitVars, dashVars, logsVars, authVars, wireVars>>

\* EXPORT CSV: nothing for an empty list, else one row per log.
downloadCSV ==
    /\ Len(govLogs) # 0
    /\ govCsv' = Items([k \in 1 .. Len(govLogs) |->
                            [risk |-> RiskFlagCsv(govLogs[k]), record |-> govLogs[k]]])
    /\ UNCHANGED <<govLogs, govLoading, govError, govPending, govTable>>
    /\ UNCHANGED <<viewVars, pollVars, panelVars, splitVars, dashVars, logsVars, authVars, wireVars>>

InitGov ==
    /\ selectedScenario = "clean"
    /\ props = HarnessProps("clean")
    /\ viewerView = Unrendered
    /\ sidebarView = SidebarUnrendered
    /\ PollIdle
    /\ PanelFresh
    /\ SplitFresh
    /\ DashFresh
    /\ ShellFresh

NextGov ==
    \/ GovFetchLogs
    \/ \E data \in LogsData : GovFetchResolves(data)
    \/ GovFetchRejects
    \/ downloadCSV

SpecGov == InitGov /\ [][NextGov]_vars

-----------------------------------------------------------------------------
(* Part 9  The reader loop of submitRequest on the bytes of the stream:    *)
(* each read delivers a chunk, which is decoded, split at line feeds and   *)
(* handled line by line; nothing is carried from one chunk to the next     *)
(* but fullContent.  The bytes are the atoms "data: " (the line prefix),   *)
(* the two halves of the JSON text of a token event, and the line feed.    *)

PFX == "data: "

LB == "{'token':"

RB == "'a'}"

WireAtoms == {PFX, LB, RB, LF}

\* Bytes of the response body that are followed.
MaxWire == 4

\* chunk.split("\n")
RECURSIVE SplitLines(_)
SplitLines(chunk) ==
    IF \A k \in 1 .. Len(chunk) : chunk[k] # LF THEN <<chunk>>
    ELSE LET k == CHOOSE j \in 1 .. Len(chunk) :
                      chunk[j] = LF /\ \A h \in 1 .. j - 1 : chunk[h] # LF
         IN  <<SubSeq(chunk, 1, k - 1)>> \o SplitLines(SubSeq(chunk, k + 1, Len(chunk)))

\* The body of the for loop for a line: line.startsWith("data: "),
\* JSON.parse(line.slice(6)) with invalid JSON skipped, parsed.token.
LineToken(line) ==
    IF Len(line) >= 1 /\ line[1] = PFX /\ Tail(line) = <<LB, RB>>
    THEN <<CH>> ELSE <<>>

\* What the for loop over the lines of a chunk adds to fullContent.
RECURSIVE LinesTokens(_)
LinesTokens(lines) ==
    IF lines = <<>> THEN <<>>
    ELSE LineToken(Head(lines)) \o LinesTokens(Tail(lines))

\* await reader.read() resolves with the next n bytes of the body.
ReadChunk(n) ==
    /\ wireRead + n <= Len(wire)
    /\ wireRead' = wireRead + n
    /\ wireContent' = wireContent
                        \o LinesTokens(SplitLines(SubSeq(wire, wireRead + 1, wireRead + n)))
    /\ UNCHANGED wire
    /\ UNCHANGED <<viewVars, pollVars, panelVars, splitVars, dashVars, logsVars, authVars, govVars>>

\* A request whose response body has just been opened: any bytes may follow.
InitWire ==
    /\ selectedScenario = "clean"
    /\ props = HarnessProps("clean")
    /\ viewerView = Unrendered
    /\ sidebarView = SidebarUnrendered
    /\ PollIdle
    /\ PanelFresh
    /\ SplitFresh
    /\ DashFresh
    /\ LogsFresh
    /\ AuthFresh
    /\ GovFresh
    /\ wire \in UNION {[1 .. n -> WireAtoms] : n \in 0 .. MaxWire}
    /\ wireRead = 0
    /\ wireContent = <<>>

NextWire ==
    \E n \in 1 .. MaxWire : ReadChunk(n)

SpecWire == InitWire /\ [][NextWire]_vars

-----------------------------------------------------------------------------
(* Claims about the rendered views *)

\* The props under which ResponseViewer reaches its response branch with an
\* audit record, and has rendered.
ViewerShowsRecord ==
    /\ viewerView.kind # "unrendered"
    /\ ~props.isLoading
    /\ props.error = Null
    /\ props.response # Null
    /\ props.auditLog # Null

\* C1: whenever ResponseViewer is rendered with a non-null response and an
\* audit record whose request_blocked is true (isLoading false, error null),
\* the view shows a Blocked (red) state and its body is not the response's raw
\* message content.
C1_BlockedSuppressesContent ==
    (ViewerShowsRecord /\ Truthy(props.auditLog.request_blocked))
        => /\ viewerView.color = "red"
           /\ viewerView.statusText \notin {"Response Allowed", "Response Redacted"}
           /\ (ResponseContent(props.response) # ""
                   => viewerView.body # ResponseContent(props.response))

\* C2: whenever ResponseViewer is rendered with an audit record in which
\* pii_detected or request_blocked is null or undefined, the status is a
\* warning (yellow) state and never the safe state 'Response Allowed' (green).
C2_NullMetadataNeverSafe ==
    (ViewerShowsRecord /\ (Nullish(props.auditLog.pii_detected)
                           \/ Nullish(props.auditLog.request_blocked)))
        => /\ viewerView.statusText # "Response Allowed"
           /\ viewerView.color = "yellow"

\* The props under which AuditSidebar renders an audit record, and has rendered.
SidebarShowsRecord ==
    /\ sidebarView.kind # "unrendered"
    /\ props.open
    /\ ~props.sidebarLoading
    /\ ~props.auditError
    /\ props.auditLog # Null

\* C4: when AuditSidebar renders an audit record (isLoading false, auditError
\* false) the status is decided in the strict order Blocked, PII Redacted,
\* Security Unknown, Clean Request: request_blocked true gives Blocked whatever
\* pii_detected is; otherwise pii_detected true gives PII Redacted; otherwise a
\* null/undefined value in either field gives Security Unknown; Clean Request
\* is shown only when both fields are exactly false.
C4_SidebarStrictOrder ==
    SidebarShowsRecord =>
        LET b == props.auditLog.request_blocked
            p == props.auditLog.pii_detected
            s == sidebarView.status
        IN  /\ sidebarView.kind = "record"
            /\ (b = "true" => s = "Blocked")
            /\ (b # "true" /\ p = "true" => s = "PII Redacted")
            /\ (b # "true" /\ p # "true" /\ (b \in {"null", "undefined"}
                                            \/ p \in {"null", "undefined"})
                    => s = "Security Unknown")
            /\ (s = "Clean Request" <=> (b = "false" /\ p = "false"))

\* C4 witness: a record with both signals present is shown as Blocked.
C4_Witness ==
    /\ SidebarShowsRecord
    /\ props.auditLog.request_blocked = "true"
    /\ props.auditLog.pii_detected = "true"
    /\ sidebarView.status = "Blocked"

-----------------------------------------------------------------------------
(* Claims about the audit poll *)

\* C3: while no audit record for the current request has been obtained,
\* ResponseViewer stays in the Pending state and is never 'Response Allowed':
\* neither the waits between attempts nor any number of unsuccessful fetches,
\* including getAuditLog using up its attempts and returning null, moves the
\* view to the safe state.
C3_NoRecordStaysPending ==
    (viewerView.kind = "response" /\ props.auditLog = Null)
        => /\ viewerView.statusText = "Governance Verification Pending..."
           /\ viewerView.color = "grey"
           /\ viewerView.waiting

\* C3 witness: a call with the default attempts used them all up, the page took
\* its null result, and the view is still Pending.
C3_Witness ==
    /\ pollPc = "idle"
    /\ pollAttempts = DefaultAttempts
    /\ pollFetches = DefaultAttempts
    /\ pollI = DefaultAttempts
    /\ props.auditLog = Null
    /\ viewerView.statusText = "Governance Verification Pending..."

\* C7: if every one of the N attempts of the audit fetch fails with an error,
\* the call resolves to an outcome the caller can tell apart from 'no record
\* yet'.  A call whose fetches all succeed without the record resolves to null,
\* so a call whose attempts all failed must not resolve to null.
C7_AllFailedIsUnavailable ==
    (pollPc = "returned" /\ pollAttempts > 0 /\ pollErrors = pollAttempts)
        => pollResult # Null

\* C20: getAuditLog issues at most attempts list fetches, one after another
\* and never two in flight; it waits the delay only between attempts, so at
\* most attempts - 1 times and exactly that often when the attempts are used
\* up; and provided each fetch settles the call always returns.
C20_BoundedSequentialPoll ==
    /\ [](/\ pollFetches <= pollAttempts
          /\ pollWaits <= pollFetches
          /\ pollPc = "fetching" => (pollFetches = pollI + 1 /\ pollWaits = pollI)
          /\ pollPc = "waiting" => (pollWaits = pollFetches /\ pollFetches < pollAttempts)
          /\ (pollPc = "returned" /\ pollResult = Null /\ pollAttempts > 0)
                => (pollFetches = pollAttempts /\ pollWaits = pollAttempts - 1))
    /\ [][pollFetches' > pollFetches
             => (pollPc # "fetching" /\ pollFetches' = pollFetches + 1)]_vars
    /\ (pollPc \in {"fetching", "waiting"}) ~> (pollPc = "returned")

\* A call with the default attempts used them all up, some attempts failing
\* with an error and some succeeding without the record, and returned null.
C20_Witness ==
    /\ pollPc = "returned"
    /\ pollResult = Null
    /\ pollAttempts = DefaultAttempts
    /\ pollFetches = DefaultAttempts
    /\ pollWaits = DefaultAttempts - 1
    /\ pollErrors \in 1 .. DefaultAttempts - 1

\* The lists of up to two records that hold a record of the request, in first
\* or in second place; the records differ in request_id and in pii_detected.
ListsWithRecord(requestId) ==
    LET records == {r \in FetchedLogs : r.request_blocked = "false" /\ r.pii_detected # "null"}
    IN  {logs \in UNION {[1 .. n -> records] : n \in 1 .. 2} :
            \E k \in 1 .. Len(logs) : logs[k].request_id = requestId}

\* C21: getAuditLog(requestId) returns null or a record whose request_id is
\* requestId, never the record of another request, and it returns at the
\* first attempt whose list holds such a record, without a further fetch.
C21_ReturnsOwnRecordAtFirstMatch ==
    [][/\ (pollPc' = "returned" /\ pollResult' # Null)
             => pollResult'.request_id = pollReq'
       /\ (/\ pollPc = "fetching"
           /\ ~(/\ pollPc' = "returned"
                /\ pollResult' # Null
                /\ pollFetches' = pollFetches
                /\ pollWaits' = pollWaits))
             => \A logs \in ListsWithRecord(pollReq) : ~FetchResolves(logs)]_vars

\* The second attempt of a call fetched a list whose first record belongs to
\* another request and whose second record is the one asked for, and the call
\* returned that second record.
C21_Witness ==
    /\ pollPc = "returned"
    /\ pollFetches = 2
    /\ pollResult # Null
    /\ pollResult.request_id = pollReq
    /\ pollReq = "other-uuid"
    /\ pollResult.pii_detected = "true"

-----------------------------------------------------------------------------
(* Claims about InteractionPanel *)

\* C6: no assistant message shows 'Safety Check: PASSED' / 'PII Scan: CLEAN'
\* unless an audit record for its request was obtained with pii_detected and
\* request_blocked both false.
C6_NoGreenWithoutAudit ==
    \A idx \in 1 .. Len(messages) :
        ShowsPassed(idx)
            => /\ PanelAuditLog(messages[idx]) # Null
               /\ PanelAuditLog(messages[idx]).pii_detected = "false"
               /\ PanelAuditLog(messages[idx]).request_blocked = "false"

\* C16: chat history is not persisted: after a page reload (unmount and
\* remount) the conversation is empty, whatever was exchanged before.
C16_ReloadEmptiesConversation ==
    [][PanelReload => messages' = <<>>]_vars

\* C29: in InteractionPanel no chat request is started while a previous one
\* is still loading, by the button or by the Enter key: at most one request
\* is in flight, and loading is true exactly while one is.
C29_OneRequestAtATime ==
    /\ panelPending <= 1
    /\ loading <=> panelPending > 0

-----------------------------------------------------------------------------
(* Claims about the splitter *)

\* splitText is <thought> T </thought> M with no closing tag in T, the
\* closing tag standing at index k.
TerminatedAt(k) ==
    /\ Len(splitText) >= 2
    /\ splitText[1] = OPEN
    /\ k \in 2 .. Len(splitText)
    /\ splitText[k] = CLOSE
    /\ \A j \in 2 .. (k - 1) : splitText[j] # CLOSE

\* splitText is <thought> T with no closing tag in T.
Unterminated ==
    /\ Len(splitText) >= 1
    /\ splitText[1] = OPEN
    /\ \A j \in 2 .. Len(splitText) : splitText[j] # CLOSE

ThoughtPart(k) == SubSeq(splitText, 2, k - 1)

MainPart(k) == SubSeq(splitText, k + 1, Len(splitText))

NoOpeningTag == \A j \in 1 .. Len(splitText) : splitText[j] # OPEN

-----------------------------------------------------------------------------
(* Claims about the streaming dashboard *)

\* What a line can act on: the page state and the invocation's own state.
ReaderState(c) == <<calls[c].pc, calls[c].fullContent, calls[c].capSources>>

\* C8: a data: line whose payload is not valid JSON changes no state and
\* raises no error; the invocation goes on reading with its fullContent as it
\* was, so the lines after it are handled as if it had not been there.
C8_MalformedLineIgnored ==
    [][\A c \in Calls :
          ReadLine(c, MalformedLine) => UNCHANGED <<display, ReaderState(c)>>]_vars

\* C8 witness: an invocation that read an unparsable line before any token,
\* then applied a token, and is still reading.
C8_Witness ==
    \E c \in Calls :
        /\ calls[c].pc = "reading"
        /\ marked = [call |-> c, kind |-> "malformed"]
        /\ calls[c].fullContent # <<>>
        /\ streamingText = calls[c].fullContent
        /\ processingState = "PROCESSING"

\* C9: after a data: [DONE] line, no line of the same stream is applied to
\* the state.
C9_NothingAppliedAfterSentinel ==
    [][\A c \in Calls : \A line \in Lines :
          (marked = [call |-> c, kind |-> "sentinel"] /\ ReadLine(c, line))
              => UNCHANGED <<display, ReaderState(c)>>]_vars

\* The done events: the transport payloads that complete a response.
DoneLines == {line \in Lines : line.kind = "event" /\ line.event.error = "" /\ line.event.done}

\* C5: the trust state shown with a completed response is a function of
\* (transport status, audit-record presence, pii_detected, request_blocked) of
\* the audit record.  The dashboard holds no audit record of the response, so
\* from one state any two done events, which differ only in fields of the
\* transport payload, leave the same PII banner.
C5_TrustFunctionOfAuditInputs ==
    [][\A c \in Calls : \A line \in DoneLines : \A other \in DoneLines :
          ReadLine(c, line) => piiWarning' = PiiWarningAfterDone(other.event)]_vars

\* C12: from an accepted submission until that submission's own result, the
\* trust indicators stay cleared: while the latest invocation of
\* submitRequest has not ended, piiWarning is false and currentSources is
\* empty.
C12_IndicatorsClearedUntilOwnResult ==
    (submits >= 1 /\ calls[submits].pc # "free")
        => (~piiWarning /\ currentSources = Items(<<>>))

\* C14: when fetch, res.text() or reader.read() throws, the invocation ends
\* at once in ERROR with a non-empty message in responseOutput, isStreaming
\* false and isConnected false, and nothing is appended to the history.
C14_TransportFailureIsTerminalError ==
    [][\A c \in Calls :
          (DashFetchRejects(c) \/ ErrorBodyRejects(c) \/ ReadRejects(c))
              => /\ processingState' = "ERROR"
                 /\ responseOutput' # Null
                 /\ responseOutput'.text # <<>>
                 /\ ~isStreaming'
                 /\ ~isConnected'
                 /\ chatHistory' = chatHistory
                 /\ calls'[c].pc = "free"]_vars

\* C14 witness: a read that threw after a token had been shown; the history
\* holds the user message only.
C14_Witness ==
    /\ processingState = "ERROR"
    /\ responseOutput = [text |-> <<"ERROR: CONNECTION FAILED">>]
    /\ ~isConnected
    /\ ~isStreaming
    /\ streamingText # <<>>
    /\ Len(chatHistory) = 1
    /\ chatHistory[1].role = "user"
    /\ \A c \in Calls : calls[c].pc = "free"


C24_OneInvocationInFlight ==
    \A c, b \in Calls : (calls[c].pc # "free" /\ calls[b].pc # "free") => c = b

\* C25: every accepted streaming submission leaves PROCESSING once its
\* response has arrived and its stream has ended, also without a done event
\* or with an empty body: when no invocation is running any more, the state
\* is not PROCESSING and isStreaming is false.
C25_EndedStreamLeavesProcessing ==
    (\A c \in Calls : calls[c].pc = "free")
        => (processingState # "PROCESSING" /\ ~isStreaming)

\* C26: the sources stored on an assistant message come only from the done
\* event of its own response: a done event without sources (absent or empty)
\* stores a message without sources.
C26_SourcesFromOwnDoneEvent ==
    [][\A c \in Calls : \A line \in DoneLines :
          (/\ ReadLine(c, line)
           /\ (line.event.sources = Null \/ line.event.sources = Items(<<>>)))
              => chatHistory'[Len(chatHistory')].sources = Null]_vars

\* C27: after Clear the conversation stays empty and the state stays IDLE
\* until the user submits again, whatever a stream still in flight delivers.
C27_ClearedStaysCleared ==
    [][(processingState = "IDLE" /\ chatHistory = <<>> /\ ~SubmitRequest)
          => (processingState' = "IDLE" /\ chatHistory' = <<>>)]_vars

\* C28: once the effects have run, the persisted copy of the conversation
\* equals the in-memory chatHistory; after Clear the persisted copy is empty
\* (nothing stored, or the empty list).
C28_PersistedCopyEqualsHistory ==
    IF dashStorage = Null THEN chatHistory = <<>>
    ELSE dashStorage.json = chatHistory

-----------------------------------------------------------------------------
(* Claims about the governance logs of the dashboard *)

\* C15: apart from the bounded audit-log poll nothing is re-issued by the
\* client itself; for the audit-log list: while the last list fetch has failed
\* (logsError is set), a new list fetch is started by a user action only.
C15_FailedListFetchNotRefetched ==
    [][\A c \in LogCalls :
          (logsError # Null /\ logsCalls[c].pc = "free" /\ logsCalls'[c].pc = "fetch")
              => logsCalls'[c].by = "user"]_vars


-----------------------------------------------------------------------------
(* Claims about the access gates and the browser storage *)

\* C17: in every reachable state the only key written to localStorage or
\* sessionStorage is sabhya_session; no API key, password or bearer token is
\* stored there.
C17_OnlySessionKeyStored ==
    StoredKeys \subseteq {"sabhya_session"}

\* The mount-time check of the mounted gate finds its credential.
CredentialFound ==
    \/ route \in LayoutRoutes /\ HasItem(sessionStorage, "sabhya_session")
    \/ route = "home" /\ HasItem(localStorage, "token")

\* C18: a gate renders its children only from the step in which its
\* mount-time check found the credential; a check that finds none redirects
\* to the login page and renders no children, also after Sign Out or Logout
\* removed the credential.
C18_ChildrenOnlyAfterCheck ==
    [][/\ (gateView' = "children" /\ gateView # "children")
             => (gatePc = "mounted" /\ CredentialFound)
       /\ gateView' = "children"
             => (gatePc' = "checked" /\ route' \in LayoutRoutes \cup {"home"})
       /\ (gatePc = "mounted" /\ gatePc' # "mounted" /\ ~CredentialFound)
             => (route' \in {"auth-login", "login"} /\ gateView' = "none")]_vars

\* A credential was removed by Sign Out or Logout, the route was entered
\* again and the check redirected to the login page.
C18_Witness ==
    /\ gateHistory = [removed |-> TRUE, outcome |-> "redirected"]
    /\ route \in {"auth-login", "login"}
    /\ gateView = "none"


-----------------------------------------------------------------------------
(* Claims about GovernanceLogs *)

\* The record is cleared: pii_detected is exactly false and the request was
\* not blocked.
Cleared(log) == log.pii_detected = "false" /\ ~Truthy(log.request_blocked)

\* C19: GovernanceLogs labels a log SAFE, in a table row and in a CSV row,
\* only when its pii_detected is exactly false and it is not a blocked
\* request; pii_detected null or request_blocked true is never labelled SAFE.
C19_SafeOnlyWhenCleared ==
    /\ govTable.kind = "rows" =>
           \A k \in 1 .. Len(govTable.flags) :
               govTable.flags[k] = "SAFE" => Cleared(govLogs[k])
    /\ govCsv # Null =>
           \A k \in 1 .. Len(govCsv.items) :
               govCsv.items[k].risk = "SAFE" => Cleared(govCsv.items[k].record)


-----------------------------------------------------------------------------
(* Claims about the bytes of the stream *)

\* C22: what the reader extracts depends only on the concatenated bytes of
\* the stream, not on how the transport cuts them into chunks: once the body
\* is read, fullContent holds the tokens the same bytes give in one chunk.
C22_ChunkingDoesNotMatter ==
    wireRead = Len(wire) => wireContent = LinesTokens(SplitLines(wire))

\* C30: a policy block is never confused with a transport failure:
\* ResponseViewer shows the title 'Request Blocked' only when the type of the
\* error is BLOCKED.
C30_BlockedTitleOnlyForBlocked ==
    (/\ viewerView.kind = "error"
     /\ props.error # Null
     /\ ~props.isLoading
     /\ viewerView.statusText = "Request Blocked")
        => props.error.type = "BLOCKED"

====
